---- MODULE Spec2Model ----
(***************************************************************************)
(* Model of src/src/main.rs: a JACK process callback that turns gamepad    *)
(* events (button press + axis sample = one drum hit) into MIDI note-on    *)
(* messages and schedules the matching note-off one beat later.            *)
(*                                                                         *)
(* One invocation of Processor::process is modelled as                     *)
(*   ProcessBegin   lines 116-120  (writer, transport_query, cycle_times)   *)
(*   NextEvent      lines 122-151  (one iteration of the `while let` loop)  *)
(*   ProcessEnd     lines 154-173  (next_event() = None: expiry scan, sort, *)
(*                                  write, return Continue)                 *)
(* pc is the callback's position.  A panic (unwrap on Err, index out of    *)
(* bounds, arithmetic overflow in a build with overflow checks) unwinds    *)
(* out of process before line 169, so nothing of that cycle is written;    *)
(* pc = "panicked" is final.                                                *)
(*                                                                         *)
(* Numbers.  u32 values are kept as their 32-bit pattern read as a signed  *)
(* integer: a negative integer x stands for the u32 value 2^32 + x, and    *)
(* u32_lt / u32_le compare patterns as unsigned numbers.  Velocities (f32)  *)
(* are exact dyadic fractions <<num, den>>; the times used are multiples   *)
(* of 31250 usecs with a period of 250000 usecs, for which the f32 / f64   *)
(* expressions of lines 129 and 148 are exact, so their truncating casts   *)
(* are integer divisions.                                                  *)
(***************************************************************************)
EXTENDS Integers, Sequences, FiniteSets, TLC

VARIABLES
    toms,         \* Drums.toms[i].hit, i in 0..5                   (line 58)
    cache,        \* Processor.cache: Vec<(u64, Hit)>                (line 92)
    output,       \* process's local Vec<(u32, [u8; 3])>             (line 120)
    cycle_times,  \* process_scope.cycle_times() of the invocation   (line 118)
    pos,          \* transport position of the invocation            (line 117)
    pc,           \* "idle" | "drain" | "panicked"
    gilrs_lock,   \* holder of the Mutex<Gilrs>: "free" | "other"   (line 90)
    n_events,     \* events returned by next_event() so far
    written,      \* messages passed to writer.write by the last completed invocation
    \* history variables (not program state)
    drained,      \* <<>> or <<[event, hit, ago, presses]>>: the last loop iteration
    presses,      \* per pad: presses since the last axis sample on the pad
    handled,      \* one record per hit that reached line 150 in this invocation
    noteoffs,     \* hids of all note-off messages pushed so far, in push order
    on_bytes,     \* <<hid, bytes>> of the note-ons pushed for the hits that are
                  \* pending or were closed in this invocation
    was_on,       \* pads whose last written message was a note-on, before `written`
    probe         \* SpecFrame only: <<[a1, a2, frames]>>, two ages and their frames

vars == <<toms, cache, output, cycle_times, pos, pc, gilrs_lock, n_events, written,
          drained, presses, handled, noteoffs, on_bytes, was_on, probe>>

----------------------------------------------------------------------------
(* Bounds of the exploration *)

MaxCycles == 3
\* events next_event() returns over the whole run
MaxEvents == 4

\* The cycle geometry JACK reports (process_scope.n_frames(), period_usecs)
\* and the clock value of the first cycle.  jack's clock counts from boot,
\* an event cannot be older than that, so line 149's u64 subtraction
\* current_usecs - hit_usecs_ago cannot underflow: first_usecs exceeds every
\* age below.
Jack == [n_frames |-> 4, period_usecs |-> 250000, first_usecs |-> 1000000,
         first_frames |-> 16]

\* pos.beats_per_minute values: one beat = 2 periods, one beat = 1/4 period,
\* and 0 (what the transport reports when no timebase master sets a tempo).
\* The transport's tempo is drawn once and stays the same over a run.
Tempos == {0, 120, 960}

\* SystemTime::now() - event.time in usecs at line 126; -1: the event's
\* timestamp is later than now (duration_since returns Err)
Ages == {-1, 0, 93750, 312500}

\* raw axis values (f32) as <<numerator, denominator>>
Velocities == {<<0, 1>>, <<1, 2>>}

NoVelocity == <<0, 1>>

ButtonCodes == {65823, 65824, 65826, 65830}
AxisCodes == {196608, 196610, 196614}

Events ==
    [type : {"ButtonPressed"}, code : ButtonCodes, velocity : {NoVelocity}]
    \cup [type : {"AxisChanged"}, code : AxisCodes, velocity : Velocities]
    \cup [type : {"ButtonReleased"}, code : {65824}, velocity : {NoVelocity}]

----------------------------------------------------------------------------
(* u32 helpers *)

u32_lt(a, b) == IF (a < 0) = (b < 0) THEN a < b ELSE b < 0
u32_le(a, b) == a = b \/ u32_lt(a, b)

Abs(x) == IF x < 0 THEN -x ELSE x

----------------------------------------------------------------------------
(* Hit::to_midi_bytes, lines 16-21.  `as u8` truncates toward zero. *)

\* mutant of to_midi_bytes: a note-off carries velocity 0
to_midi_bytes_off_velocity_zero(hit, channel) ==
    LET note == hit.tom_id + 36
        num == hit.velocity[1]
        den == hit.velocity[2]
        velocity == IF channel = 128 THEN 0 ELSE ((den - Abs(num)) * 127) \div den
    IN  <<channel, note, velocity>>

to_midi_bytes(hit, channel) ==
    LET note == hit.tom_id + 36
        num == hit.velocity[1]
        den == hit.velocity[2]
        velocity == ((den - Abs(num)) * 127) \div den
    IN  <<channel, note, velocity>>

----------------------------------------------------------------------------
(* Tom, lines 33-52.  A tom's state is its `hit` flag. *)

Tom_new == FALSE

\* mutant of Tom_hit: the flag is toggled instead of set
Tom_hit_toggles(tom) == ~tom

Tom_hit(tom) == TRUE

\* mutant of record_velocity: line 45 (self.hit = false) left out
record_velocity_keeps_flag(tom, id, velocity, hid) ==
    IF tom
    THEN [tom |-> tom,
          hit |-> <<[tom_id |-> id, velocity |-> velocity, hid |-> hid]>>]
    ELSE [tom |-> tom, hit |-> <<>>]

\* returns [tom, hit]; hit is <<>> (None) or <<Hit>> (Some)
record_velocity(tom, id, velocity, hid) ==
    IF tom
    THEN [tom |-> FALSE,
          hit |-> <<[tom_id |-> id, velocity |-> velocity, hid |-> hid]>>]
    ELSE [tom |-> tom, hit |-> <<>>]

----------------------------------------------------------------------------
(* Drums::process_event, lines 62-82.                                      *)
(* Returns [toms, hit, panicked].                                          *)

axis_index(weird_index) ==
    CASE weird_index \in {0, 1, 4} -> weird_index
      [] weird_index = 3 -> 5
      [] weird_index = 5 -> 3
      [] weird_index = 6 -> 2
      [] OTHER -> 0

process_event(ts, event, hid) ==
    CASE event.type = "ButtonPressed" ->
            \* line 65: code - 65824 on u32.  Below 65824 a checked build
            \* panics on the subtraction and an unchecked one wraps to an
            \* index >= 2^32 - 65824; line 66 panics on any index > 5.
            LET index == event.code - 65824
            IN  IF index < 0 \/ index > 5
                THEN [toms |-> ts, hit |-> <<>>, panicked |-> TRUE]
                ELSE [toms |-> [ts EXCEPT ![index] = Tom_hit(ts[index])],
                      hit |-> <<>>, panicked |-> FALSE]
      [] event.type = "AxisChanged" ->
            LET weird_index == event.code - 196608
                index == axis_index(weird_index)
                r == record_velocity(ts[index], index, event.velocity, hid)
            IN  [toms |-> [ts EXCEPT ![index] = r.tom],
                 hit |-> r.hit, panicked |-> FALSE]
      [] OTHER -> [toms |-> ts, hit |-> <<>>, panicked |-> FALSE]

----------------------------------------------------------------------------
(* Pieces of Processor::process *)

\* line 129: ((ago as f32 / period_usecs as f32) * n_frames as f32) as u32
hit_frames_ago(ago) == (ago * Jack.n_frames) \div Jack.period_usecs

\* mutant of hit_frame: the age in frames counted from the cycle start
hit_frame_from_start(ago) == hit_frames_ago(ago)

\* line 130: process_scope.n_frames() - hit_frames_ago, as a u32 pattern
hit_frame(ago) == Jack.n_frames - hit_frames_ago(ago)

\* line 148: ((60.0 / pos.beats_per_minute) * 1000_000.0) as u64.
\* For a tempo of 0.0 the quotient is +inf and the cast saturates to
\* u64::MAX = 2^64 - 1, kept here as its 64-bit pattern read as a signed
\* integer, -1 (the convention of the u32 values).
beat_usecs(bpm) == IF bpm = 0 THEN -1 ELSE (60 * 1000000) \div bpm

\* line 149: the u64 sum (current_usecs - ago) + beat_usecs exceeds u64::MAX
note_off_overflows(current_usecs, ago, bpm) ==
    beat_usecs(bpm) < 0 /\ current_usecs - ago >= 1

\* mutant of note_off_usec: the deadline counted from the cycle start
\* instead of from the time of the hit
note_off_usec_from_cycle_start(current_usecs, ago, bpm) ==
    current_usecs + beat_usecs(bpm)

\* line 149, modulo 2^64: adding the pattern -1 is adding 2^64 - 1
note_off_usec(current_usecs, ago, bpm) == current_usecs - ago + beat_usecs(bpm)

\* lines 133-142: the entries the retain closure drops, in cache order
SameTom(c, tom_id) == SelectSeq(c, LAMBDA e : e[2].tom_id = tom_id)

\* mutant of RetainOtherToms: the closure returns true for every entry
retain_keeps_all(c, tom_id) == c

\* lines 133-142: the entries the retain closure keeps
\* mutant of RetainOtherToms: the predicate of retain is inverted
retain_keeps_same_tom(c, tom_id) == SelectSeq(c, LAMBDA e : e[2].tom_id = tom_id)

RetainOtherToms(c, tom_id) == SelectSeq(c, LAMBDA e : e[2].tom_id # tom_id)

\* a message of `output`: (frame, bytes).  hid is a history tag, the serial
\* number of the event that produced the Hit; the program's Hit has only
\* tom_id and velocity, and nothing the program computes reads hid.
Msg(frame, hit, channel) ==
    [time |-> frame, bytes |-> to_midi_bytes(hit, channel), hid |-> hit.hid]

RECURSIVE NoteOffs(_, _)
NoteOffs(entries, frame) ==
    IF entries = <<>> THEN <<>>
    ELSE <<Msg(frame, Head(entries)[2], 128)>> \o NoteOffs(Tail(entries), frame)

\* line 156
\* mutant of should_output: the window is closed at its upper end
should_output_inclusive(usec, ct) == usec >= ct.current_usecs /\ usec <= ct.next_usecs

should_output(usec, ct) == usec >= ct.current_usecs /\ usec < ct.next_usecs

\* rint(num / den) for num >= 0, den > 0: nearest integer, ties to even
Rint(num, den) ==
    LET q == num \div den
        r == num % den
    IN  IF 2 * r < den THEN q
        ELSE IF 2 * r > den THEN q + 1
        ELSE IF q % 2 = 0 THEN q ELSE q + 1

\* client.time_to_frames (line 159): JACK maps a time to the frame counter
\* by interpolating between the current and the next wakeup,
\*   frames + rint((usecs - current) / (next - current) * buffer_size)
time_to_frames(usec, ct) ==
    ct.current_frames
        + Rint((usec - ct.current_usecs) * Jack.n_frames,
               ct.next_usecs - ct.current_usecs)

\* lines 155-165
Due(c, ct) == SelectSeq(c, LAMBDA e : should_output(e[1], ct))
RetainNotDue(c, ct) == SelectSeq(c, LAMBDA e : ~should_output(e[1], ct))

RECURSIVE ExpiryNoteOffs(_, _)
ExpiryNoteOffs(entries, ct) ==
    IF entries = <<>> THEN <<>>
    ELSE <<Msg(time_to_frames(Head(entries)[1], ct) - ct.current_frames,
               Head(entries)[2], 128)>>
         \o ExpiryNoteOffs(Tail(entries), ct)

\* line 168: sort_by is a stable sort on the u32 frame
RECURSIVE InsertByTime(_, _)
InsertByTime(sorted, m) ==
    IF sorted = <<>> THEN <<m>>
    ELSE IF u32_lt(m.time, Head(sorted).time)
         THEN <<m>> \o sorted
         ELSE <<Head(sorted)>> \o InsertByTime(Tail(sorted), m)

RECURSIVE SortFrom(_, _)
SortFrom(sorted, rest) ==
    IF rest = <<>> THEN sorted
    ELSE SortFrom(InsertByTime(sorted, Head(rest)), Tail(rest))

Reverse(s) == [i \in 1..Len(s) |-> s[Len(s) + 1 - i]]

\* mutant of sort_by: an unstable sort (messages of equal frame come out in
\* the reverse of their push order)
sort_by_unstable(out) == SortFrom(<<>>, Reverse(out))

\* mutant of sort_by: line 168 left out
sort_by_none(out) == out

sort_by(out) == SortFrom(<<>>, out)

----------------------------------------------------------------------------
(* History helpers *)

Cycle(ct) == (ct.current_usecs - Jack.first_usecs) \div Jack.period_usecs

Hids(entries) == [i \in 1..Len(entries) |-> entries[i][2].hid]

Pads == 0..5

NotesOf(msgs, p) == SelectSeq(msgs, LAMBDA m : m.bytes[2] = p + 36)

\* the pad an event is for: -1 for none
EventPad(event) ==
    CASE event.type = "ButtonPressed" /\ event.code - 65824 \in Pads ->
            event.code - 65824
      [] event.type = "AxisChanged" -> axis_index(event.code - 196608)
      [] OTHER -> -1

\* presses outstanding per pad after `event`
PressesAfter(n, event) ==
    CASE event.type = "ButtonPressed" /\ EventPad(event) \in Pads ->
            [n EXCEPT ![EventPad(event)] = @ + 1]
      [] event.type = "AxisChanged" -> [n EXCEPT ![EventPad(event)] = 0]
      [] OTHER -> n

\* the pads sounding after `msgs` were written, given those sounding before
SoundingAfter(on, msgs) ==
    {p \in Pads :
        LET ms == NotesOf(msgs, p)
        IN  IF ms = <<>> THEN p \in on ELSE ms[Len(ms)].bytes[1] = 144}

----------------------------------------------------------------------------
(* State machine *)

Init ==
    /\ toms = [i \in Pads |-> Tom_new]
    /\ cache = <<>>
    /\ output = <<>>
    /\ cycle_times = [current_usecs |-> Jack.first_usecs - Jack.period_usecs,
                      next_usecs |-> Jack.first_usecs,
                      current_frames |-> Jack.first_frames - Jack.n_frames]
    /\ pos \in [beats_per_minute : Tempos]
    /\ pc = "idle"
    /\ gilrs_lock = "free"
    /\ n_events = 0
    /\ written = <<>>
    /\ drained = <<>>
    /\ presses = [p \in Pads |-> 0]
    /\ handled = <<>>
    /\ noteoffs = <<>>
    /\ on_bytes = {}
    /\ was_on = {}
    /\ probe = <<>>

\* lines 114-120: JACK calls process for the next, contiguous cycle
ProcessBegin ==
    /\ pc = "idle"
    /\ Cycle(cycle_times) + 1 < MaxCycles
    /\ pc' = "drain"
    /\ cycle_times' = [current_usecs |-> cycle_times.next_usecs,
                       next_usecs |-> cycle_times.next_usecs + Jack.period_usecs,
                       current_frames |-> cycle_times.current_frames + Jack.n_frames]
    /\ output' = <<>>
    /\ drained' = <<>>
    /\ handled' = <<>>
    /\ on_bytes' = {b \in on_bytes : \E i \in DOMAIN cache : cache[i][2].hid = b[1]}
    /\ UNCHANGED <<toms, cache, pos, gilrs_lock, n_events, written, presses,
                   noteoffs, was_on, probe>>

\* lines 126-150 for one hit; frame is the u32 result of line 130
HandleHit(hit, ago, frame) ==
    LET old == SameTom(cache, hit.tom_id)
        usec == note_off_usec(cycle_times.current_usecs, ago,
                              pos.beats_per_minute)
    IN  /\ output' = output \o NoteOffs(old, frame) \o <<Msg(frame, hit, 144)>>
        /\ cache' = Append(RetainOtherToms(cache, hit.tom_id), <<usec, hit>>)
        /\ noteoffs' = noteoffs \o Hids(old)
        /\ on_bytes' = on_bytes \cup {<<hit.hid, Msg(frame, hit, 144).bytes>>}
        /\ handled' = Append(handled,
                             [hit |-> hit, ago |-> ago, hit_frame |-> frame,
                              closed |-> Hids(old), usec |-> usec])
        /\ pc' = pc

Panic ==
    /\ pc' = "panicked"
    /\ UNCHANGED <<cache, output, noteoffs, on_bytes, handled>>

\* lines 122-151: next_event() returned Some(event).  Line 122 takes the
\* mutex with lock(), which returns only once no other thread holds it; the
\* guard is dropped at the end of the iteration.
NextEvent(event, ago) ==
    /\ pc = "drain"
    /\ gilrs_lock = "free"
    /\ n_events < MaxEvents
    /\ n_events' = n_events + 1
    /\ LET hid == n_events + 1
           r == process_event(toms, event, hid)
       IN  /\ toms' = r.toms
           /\ drained' = <<[event |-> event, hit |-> r.hit,
                            ago |-> IF r.hit = <<>> THEN 0 ELSE ago,
                            presses |-> IF EventPad(event) \in Pads
                                        THEN presses[EventPad(event)] ELSE 0]>>
           /\ presses' = PressesAfter(presses, event)
           /\ IF r.panicked THEN Panic
              ELSE IF r.hit = <<>>
              THEN UNCHANGED <<cache, output, noteoffs, on_bytes, handled, pc>>
              ELSE IF ago < 0
              THEN Panic                  \* line 126: unwrap() on Err
              ELSE IF \/ hit_frames_ago(ago) > Jack.n_frames
                      \/ note_off_overflows(cycle_times.current_usecs, ago,
                                            pos.beats_per_minute)
                   THEN \* line 130 or line 149 overflows: a build with
                        \* overflow checks panics, one without wraps
                        \/ Panic
                        \/ HandleHit(r.hit[1], ago, hit_frame(ago))
                   ELSE HandleHit(r.hit[1], ago, hit_frame(ago))
    /\ UNCHANGED <<cycle_times, pos, gilrs_lock, written, was_on, probe>>

\* lines 154-173: lock() at line 122 returned and next_event() returned None
ProcessEnd ==
    /\ pc = "drain"
    /\ gilrs_lock = "free"
    /\ LET due == Due(cache, cycle_times)
           out == output \o ExpiryNoteOffs(due, cycle_times)
       IN  /\ cache' = RetainNotDue(cache, cycle_times)
           /\ output' = out
           /\ written' = sort_by(out)
           /\ noteoffs' = noteoffs \o Hids(due)
    /\ was_on' = SoundingAfter(was_on, written)
    /\ pc' = "idle"
    /\ UNCHANGED <<toms, cycle_times, pos, gilrs_lock, n_events, drained, presses,
                   handled, on_bytes, probe>>

Next ==
    \/ ProcessBegin
    \/ \E event \in Events, ago \in Ages : NextEvent(event, ago)
    \/ ProcessEnd

Spec == Init /\ [][Next]_vars

----------------------------------------------------------------------------
(* The program itself never hands the Arc<Mutex<Gilrs>> to another thread, *)
(* so under Spec the mutex is free whenever line 122 asks for it.  SpecLock *)
(* adds the other holder the design describes (a housekeeping thread that  *)
(* touches the input-device handle under the same lock).                   *)

HousekeepingLock ==
    /\ gilrs_lock = "free"
    /\ gilrs_lock' = "other"
    /\ UNCHANGED <<toms, cache, output, cycle_times, pos, pc, n_events, written,
                   drained, presses, handled, noteoffs, on_bytes, was_on, probe>>

HousekeepingUnlock ==
    /\ gilrs_lock = "other"
    /\ gilrs_lock' = "free"
    /\ UNCHANGED <<toms, cache, output, cycle_times, pos, pc, n_events, written,
                   drained, presses, handled, noteoffs, on_bytes, was_on, probe>>

NextLock ==
    \/ ProcessBegin
    \/ \E event \in Events, ago \in Ages : NextEvent(event, ago)
    \/ ProcessEnd
    \/ HousekeepingLock
    \/ HousekeepingUnlock

SpecLock == Init /\ [][NextLock]_vars

----------------------------------------------------------------------------
(* Helpers of the properties *)

Range(f) == {f[i] : i \in DOMAIN f}

IsNoteOff(m, p) == m.bytes[1] = 128 /\ m.bytes[2] = p + 36
IsNoteOn(m, p) == m.bytes[1] = 144 /\ m.bytes[2] = p + 36

\* the hits of this invocation that found a pending note-off of their pad
Collisions == {k \in DOMAIN handled : handled[k].closed # <<>>}

RECURSIVE Alternating(_, _)
Alternating(ms, sounding) ==
    \/ ms = <<>>
    \/ /\ Head(ms).bytes[1] = (IF sounding THEN 128 ELSE 144)
       /\ Alternating(Tail(ms), ~sounding)

Min(a, b) == IF a < b THEN a ELSE b
Max(a, b) == IF a > b THEN a ELSE b

----------------------------------------------------------------------------
(* C1 -- collision law.  When an invocation that handled a hit on pad p    *)
(* while the cache held a pending note-off for p has written its output,   *)
(* the written sequence holds the old note's note-off (0x80, p + 36) at an *)
(* earlier position than the new hit's note-on (0x90, p + 36), at a frame  *)
(* lower than or equal to the note-on's.                                   *)
C1_CollisionLaw ==
    pc = "idle" =>
        \A k \in Collisions :
            \A old \in Range(handled[k].closed) :
                \E i, j \in DOMAIN written :
                    /\ i < j
                    /\ written[i].hid = old
                    /\ IsNoteOff(written[i], handled[k].hit.tom_id)
                    /\ written[j].hid = handled[k].hit.hid
                    /\ IsNoteOn(written[j], handled[k].hit.tom_id)
                    /\ u32_le(written[i].time, written[j].time)

\* a collision in a cycle whose output the sort had to reorder
C1_Witness ==
    /\ pc = "idle"
    /\ Collisions # {}
    /\ written # output

(* C2 -- monophonic per pad.  For every pad p the messages written for     *)
(* note p + 36 alternate note-on, note-off, note-on, ..., continuing from  *)
(* what was written before: a note-on only when p is silent, a note-off    *)
(* only when p sounds.                                                     *)
C2_Monophonic ==
    \A p \in Pads : Alternating(NotesOf(written, p), p \in was_on)

(* C3 -- emission ordering.  The frames of the messages passed to          *)
(* writer.write in one invocation are non-decreasing (as u32) in the order *)
(* written.                                                                *)
C3_EmissionOrdering ==
    \A i \in DOMAIN written :
        i < Len(written) => u32_le(written[i].time, written[i + 1].time)

\* an invocation whose pushes were not in frame order
C3_Witness ==
    /\ pc = "idle"
    /\ Len(written) >= 2
    /\ written # output

(* C4 -- no double note-off.  No hit's note-off is pushed twice, and an    *)
(* entry whose note-off has been pushed (by collision closure or by the    *)
(* expiry scan) is no longer in the cache.                                 *)
C4_NoDoubleNoteOff ==
    /\ \A i, j \in DOMAIN noteoffs : i # j => noteoffs[i] # noteoffs[j]
    /\ \A e \in Range(cache) : e[2].hid \notin Range(noteoffs)

\* one entry closed by a collision and another emitted by the expiry scan
C4_Witness ==
    /\ pc = "idle"
    /\ Collisions # {}
    /\ \E i \in DOMAIN written :
        /\ written[i].bytes[1] = 128
        /\ \A k \in DOMAIN handled : written[i].hid \notin Range(handled[k].closed)

(* C5 -- every note-on gets its note-off.  The windows of successive       *)
(* cycles are contiguous and only advance, so a pending entry is emitted   *)
(* by the expiry scan exactly if its deadline is not behind the windows    *)
(* still to come: when an invocation returns, every entry left in the      *)
(* cache has its deadline at or after the start of the next window.        *)
C5_EveryNoteOnGetsNoteOff ==
    pc = "idle" =>
        \A e \in Range(cache) : e[1] >= cycle_times.next_usecs

(* C6 -- press, then sample.  An axis sample on pad p yields a Hit for p   *)
(* with the sample's velocity exactly if a press on p is outstanding, and  *)
(* consumes the press; only a press on p makes a press outstanding.        *)
C6_PressThenSample ==
    [][ n_events' = n_events + 1 =>
          LET event == drained'[1].event
              hit == drained'[1].hit
          IN  /\ event.type = "AxisChanged" =>
                    LET p == axis_index(event.code - 196608)
                    IN  /\ ~toms'[p]
                        /\ toms[p] =>
                             /\ Len(hit) = 1
                             /\ hit[1].tom_id = p
                             /\ hit[1].velocity = event.velocity
                        /\ ~toms[p] => hit = <<>>
                        /\ \A q \in Pads \ {p} : toms'[q] = toms[q]
              /\ event.type # "AxisChanged" => hit = <<>>
              /\ \A q \in Pads :
                    toms'[q] /\ ~toms[q] =>
                        event.type = "ButtonPressed" /\ event.code = 65824 + q
       ]_vars

\* a second axis sample on a pad whose press was consumed in this invocation
C6_Witness ==
    /\ drained # <<>>
    /\ drained[1].event.type = "AxisChanged"
    /\ drained[1].hit = <<>>
    /\ \E k \in DOMAIN handled :
          handled[k].hit.tom_id = axis_index(drained[1].event.code - 196608)

(* C7 -- frame range.  The frame of a hit is n_frames minus its age in     *)
(* frames, clamped to [0, n_frames - 1].                                   *)
C7_FrameRange ==
    \A k \in DOMAIN handled :
        handled[k].hit_frame =
            Max(0, Min(Jack.n_frames - 1,
                       Jack.n_frames
                         - (handled[k].ago * Jack.n_frames) \div Jack.period_usecs))

(* C8 -- tempo scheduling.  At a positive tempo the entry cached for a hit *)
(* that occurred at T = current_usecs - hit_usecs_ago has deadline         *)
(* T + 60_000_000 / bpm; at 120 BPM that is T + 500_000.                   *)
C8_TempoScheduling ==
    \A k \in DOMAIN handled :
        \A e \in Range(cache) :
            e[2].hid = handled[k].hit.hid /\ pos.beats_per_minute > 0 =>
                LET T == cycle_times.current_usecs - handled[k].ago
                IN  /\ e[1] = T + 60000000 \div pos.beats_per_minute
                    /\ pos.beats_per_minute = 120 => e[1] = T + 500000

\* a hit of positive age at 120 BPM whose entry is in the cache
C8_Witness ==
    /\ pos.beats_per_minute = 120
    /\ \E k \in DOMAIN handled :
          /\ handled[k].ago > 0
          /\ \E e \in Range(cache) : e[2].hid = handled[k].hit.hid

(* C9 -- a button event whose code is outside 65824..65829 does not abort  *)
(* the callback.                                                           *)
C9_BadCodeDropped ==
    (/\ drained # <<>>
     /\ drained[1].event.type = "ButtonPressed"
     /\ drained[1].event.code \notin 65824..65829)
        => pc # "panicked"

(* C10 -- clock anomaly.  A hit whose timestamp is later than the current  *)
(* wall-clock time does not abort the callback.                            *)
C10_ClockAnomaly ==
    (/\ drained # <<>>
     /\ drained[1].hit # <<>>
     /\ drained[1].ago < 0)
        => pc # "panicked"

(* C11 -- tempo anomaly.  At a reported tempo of 0 a hit (with a valid     *)
(* age, within the cycle) does not abort the callback, and the deadline    *)
(* cached for it is later than the time of the hit by a positive, finite   *)
(* fallback beat, so that a coming window reaches it.                      *)
C11_TempoFallback ==
    pos.beats_per_minute = 0 =>
        /\ (/\ drained # <<>>
            /\ drained[1].hit # <<>>
            /\ drained[1].ago >= 0
            /\ hit_frames_ago(drained[1].ago) <= Jack.n_frames)
               => pc # "panicked"
        /\ \A k \in DOMAIN handled :
              \A e \in Range(cache) :
                  e[2].hid = handled[k].hit.hid =>
                      e[1] > cycle_times.current_usecs - handled[k].ago

(* C13 -- an axis sample whose code is outside the six-entry axis table    *)
(* (196608 + {0, 1, 3, 4, 5, 6}) yields no Hit.                            *)
C13_UnknownAxisIgnored ==
    (/\ drained # <<>>
     /\ drained[1].event.type = "AxisChanged"
     /\ drained[1].event.code - 196608 \notin {0, 1, 3, 4, 5, 6})
        => drained[1].hit = <<>>

----------------------------------------------------------------------------
(* The frame computation of lines 129-130 as a function of the age alone:  *)
(* SpecFrame draws two ages within one period and applies it to both.      *)
(* For a period of 250000 usecs and 4 frames the f32 quotient and product  *)
(* of line 129 truncate to the same integer as the exact quotient for      *)
(* every whole number of usecs.                                            *)

FrameAges == {k * 15625 : k \in 0..16}

InitFrame ==
    /\ toms = [i \in Pads |-> Tom_new]
    /\ cache = <<>>
    /\ output = <<>>
    /\ cycle_times = [current_usecs |-> Jack.first_usecs,
                      next_usecs |-> Jack.first_usecs + Jack.period_usecs,
                      current_frames |-> Jack.first_frames]
    /\ pos \in [beats_per_minute : Tempos]
    /\ pc = "drain"
    /\ gilrs_lock = "free"
    /\ n_events = 0
    /\ written = <<>>
    /\ drained = <<>>
    /\ presses = [p \in Pads |-> 0]
    /\ handled = <<>>
    /\ noteoffs = <<>>
    /\ on_bytes = {}
    /\ was_on = {}
    /\ \E a1, a2 \in FrameAges :
          /\ a1 <= a2
          /\ probe = <<[a1 |-> a1, a2 |-> a2, frames |-> <<>>]>>

ToFrame ==
    /\ probe[1].frames = <<>>
    /\ probe' = <<[probe[1] EXCEPT
                     !.frames = <<hit_frame(probe[1].a1), hit_frame(probe[1].a2)>>]>>
    /\ UNCHANGED <<toms, cache, output, cycle_times, pos, pc, gilrs_lock, n_events,
                   written, drained, presses, handled, noteoffs, on_bytes, was_on>>

NextFrame == ToFrame

SpecFrame == InitFrame /\ [][NextFrame]_vars

(* C15 -- frame monotonicity.  For two ages a1 <= a2 within one period the *)
(* frame computed for a2 is lower than or equal to the frame computed for  *)
(* a1.                                                                     *)
C15_FrameMonotone ==
    (probe # <<>> /\ probe[1].frames # <<>>) =>
        (probe[1].a1 <= probe[1].a2 =>
            u32_le(probe[1].frames[2], probe[1].frames[1]))

\* two ages whose frames differ
C15_Witness ==
    /\ probe # <<>>
    /\ probe[1].frames # <<>>
    /\ probe[1].a1 < probe[1].a2
    /\ u32_lt(probe[1].frames[2], probe[1].frames[1])

(* C14 -- press idempotence.  Whatever the number (one or more) of presses *)
(* on a pad since its last axis sample, the pad awaits a velocity exactly  *)
(* as after one press, and the next axis sample on it yields exactly one   *)
(* Hit and leaves no press outstanding.                                    *)
C14_PressIdempotent ==
    /\ \A p \in Pads : toms[p] = (presses[p] >= 1)
    /\ (/\ drained # <<>>
        /\ drained[1].event.type = "AxisChanged"
        /\ drained[1].presses >= 1)
           => /\ Len(drained[1].hit) = 1
              /\ drained[1].hit[1].tom_id = EventPad(drained[1].event)
              /\ ~toms[EventPad(drained[1].event)]

\* an axis sample that follows two or more presses on its pad
C14_Witness ==
    /\ drained # <<>>
    /\ drained[1].event.type = "AxisChanged"
    /\ drained[1].presses >= 2
    /\ Len(drained[1].hit) = 1

(* C16 -- MIDI mapping.  Every note-on written for a hit on pad p has      *)
(* status 0x90 and note p + 36; every note-off written has status 0x80     *)
(* and the note number and the velocity byte of the note-on of its hit.    *)
C16_MidiMapping ==
    /\ \A e \in Range(cache) :
          \E b \in on_bytes :
              b[1] = e[2].hid /\ b[2][1] = 144 /\ b[2][2] = e[2].tom_id + 36
    /\ pc = "idle" =>
          \A m \in Range(written) :
              \/ /\ m.bytes[1] = 144
                 /\ \E k \in DOMAIN handled :
                       /\ handled[k].hit.hid = m.hid
                       /\ m.bytes[2] = handled[k].hit.tom_id + 36
                 /\ <<m.hid, m.bytes>> \in on_bytes
              \/ /\ m.bytes[1] = 128
                 /\ \E b \in on_bytes :
                       /\ b[1] = m.hid
                       /\ b[2][1] = 144
                       /\ m.bytes[2] = b[2][2]
                       /\ m.bytes[3] = b[2][3]

\* a note-off of non-zero velocity written for a note-on of an earlier cycle,
\* and a note-off written by collision closure
C16_Witness ==
    /\ pc = "idle"
    /\ \E m \in Range(written) :
          /\ m.bytes[1] = 128
          /\ m.bytes[3] > 0
          /\ \A k \in DOMAIN handled : handled[k].hit.hid # m.hid
    /\ \E m \in Range(written) : \E k \in Collisions :
          m.bytes[1] = 128 /\ m.hid \in Range(handled[k].closed)

(* C17 -- velocity byte.  The velocity byte of every note-on is            *)
(* (1 - |v|) * 127 rounded to the nearest integer and lies in 0..127; for  *)
(* v = 1/2 it is 64.                                                       *)
C17_VelocityRounded ==
    \A k \in DOMAIN handled :
        LET num == handled[k].hit.velocity[1]
            den == handled[k].hit.velocity[2]
            rounded == (2 * (den - Abs(num)) * 127 + den) \div (2 * den)
        IN  \A b \in on_bytes :
                b[1] = handled[k].hit.hid =>
                    /\ b[2][3] \in 0..127
                    /\ b[2][3] = rounded
                    /\ (2 * num = den => b[2][3] = 64)

(* C18 -- note length on the output timeline.  For a hit whose age lies    *)
(* within the cycle, the deadline of its note-off is exactly one beat      *)
(* after cycle start + note-on frame * frame duration.                     *)
C18_OneBeatOnOutputTimeline ==
    \A k \in DOMAIN handled :
        (/\ pos.beats_per_minute > 0
         /\ handled[k].ago >= 0
         /\ handled[k].ago <= Jack.period_usecs
         /\ \E e \in Range(cache) : e[2].hid = handled[k].hit.hid)
        => handled[k].usec =
               cycle_times.current_usecs
                 + handled[k].hit_frame * (Jack.period_usecs \div Jack.n_frames)
                 + (60 * 1000000) \div pos.beats_per_minute

(* C19 -- expiry scan partition.  The scan at the end of a cycle removes   *)
(* from the cache exactly the entries whose deadline d satisfies           *)
(* current_usecs <= d < next_usecs and pushes one note-off for each, at    *)
(* frame time_to_frames(d) - current_frames; every other entry stays in    *)
(* the cache unchanged, in order, and produces no output.                  *)
C19_ExpiryScanPartition ==
    [][ (pc = "drain" /\ pc' = "idle") =>
          LET InWindow(e) == /\ cycle_times.current_usecs <= e[1]
                             /\ e[1] < cycle_times.next_usecs
              inw == {i \in DOMAIN cache : InWindow(cache[i])}
              n == Len(output)
          IN  /\ cache' = SelectSeq(cache, LAMBDA e : ~InWindow(e))
              /\ Len(output') = n + Cardinality(inw)
              /\ SubSeq(output', 1, n) = output
              /\ \A i \in inw :
                    \E j \in (n + 1)..Len(output') :
                        /\ output'[j].hid = cache[i][2].hid
                        /\ output'[j].bytes[1] = 128
                        /\ output'[j].bytes[2] = cache[i][2].tom_id + 36
                        /\ output'[j].time =
                               time_to_frames(cache[i][1], cycle_times)
                                 - cycle_times.current_frames
       ]_vars

\* after a scan: an entry that stayed and a note-off that the scan pushed
C19_Witness ==
    /\ pc = "idle"
    /\ cache # <<>>
    /\ \E m \in Range(written) :
          /\ m.bytes[1] = 128
          /\ \A k \in DOMAIN handled : m.hid \notin Range(handled[k].closed)

(* C20 -- cache invariant.  After process returns the cache holds at most  *)
(* one entry per pad, hence at most 6 entries.                             *)
C20_OneEntryPerPad ==
    pc = "idle" =>
        /\ \A i, j \in DOMAIN cache :
              cache[i][2].tom_id = cache[j][2].tom_id => i = j
        /\ \A i \in DOMAIN cache : cache[i][2].tom_id \in Pads
        /\ Len(cache) <= Cardinality(Pads)
        /\ Cardinality(Pads) = 6

\* a second hit on a pad whose note was pending: one entry, not two
C20_Witness ==
    /\ pc = "idle"
    /\ \E k \in Collisions :
          \E i \in DOMAIN cache : cache[i][2].hid = handled[k].hit.hid
    /\ Len(cache) = 1

(* C12 -- the callback never blocks.  Whoever holds the input-device lock, *)
(* an invocation that has started can go on to its expiry scan and write   *)
(* the due note-offs (skipping input if the lock is taken).                *)
C12_NeverBlocks ==
    pc = "drain" => ENABLED ProcessEnd

====
